---- MODULE Spec2Model ----
(***************************************************************************)
(* Model of video_checker.py: the motion classifier (check_video_motion),  *)
(* the temporal key parser (parse_video_time), the concatenator            *)
(* (concatenate_videos) and the folder orchestrator (process_video_folder).*)
(***************************************************************************)
EXTENDS Integers, Sequences, FiniteSets, TLC

(***************************************************************************)
(* Bounds of the model.                                                    *)
(***************************************************************************)
\* frames are FrameW x FrameH pixels
FrameW == 4
FrameH == 2
\* a short clip holds 1..MaxShortLen frames
MaxShortLen == 3
\* a long clip holds LongLen or LongLen + 1 frames
LongLen == 40
\* a folder holds at most MaxFiles files
MaxFiles == 2
\* another party removes at most MaxVanish files during the pass
MaxVanish == 1

(***************************************************************************)
(* Constants of the program.                                               *)
(***************************************************************************)
\* cv2.GaussianBlur(..., (21, 21), 0)
KernelSize == 21
\* cv2.threshold(diff, 25, 255, cv2.THRESH_BINARY)
BinThreshold == 25
\* cv2.dilate(thresh, None, iterations=2)
DilateIterations == 2
\* check_interval = max(1, frame_count // 20)
SampleDivisor == 20

Max(a, b) == IF a >= b THEN a ELSE b
Min(a, b) == IF a <= b THEN a ELSE b
Abs(a) == IF a >= 0 THEN a ELSE 0 - a

(***************************************************************************)
(* Frames.  A decoded frame is a BGR image; the model draws frames from a  *)
(* catalogue of images, named by kind.                                     *)
(***************************************************************************)
Pixels == (0 .. FrameW - 1) \X (0 .. FrameH - 1)

Black == <<0, 0, 0>>
White == <<255, 255, 255>>
Red == <<0, 0, 255>>
Dim == <<20, 20, 20>>

FrameKinds == {"dark", "stamp", "side", "red", "dim"}

\* the BGR value of pixel p = <<x, y>> of a frame of kind k
FrameImage(k) ==
    [p \in Pixels |->
        CASE k = "dark" -> Black
          [] k = "stamp" -> IF p = <<0, 0>> THEN White ELSE Black
          [] k = "side" -> IF p[1] = FrameW - 1 THEN White ELSE Black
          [] k = "red" -> Red
          [] OTHER -> Dim]

\* rectangles (x1, y1, x2, y2) inside the frame
Masks ==
    {<<0, 0, 0, 0>>, <<0, 0, 1, 1>>, <<0, 0, FrameW - 1, FrameH>>, <<0, 0, FrameW, FrameH>>}

InBox(p, box) ==
    /\ box[1] <= p[1] /\ p[1] < box[3]
    /\ box[2] <= p[2] /\ p[2] < box[4]

\* the function f with every value computed (an array in memory)
Array(f) == f @@ << >>

\* frame[y1:y2, x1:x2] = 0
FillBox(img, box) == [p \in Pixels |-> IF InBox(p, box) THEN Black ELSE img[p]]

\* cv2.cvtColor(frame, cv2.COLOR_BGR2GRAY): fixed point, 14 fractional bits
CvtColor(img) ==
    Array([p \in Pixels |->
        (img[p][1] * 1868 + img[p][2] * 9617 + img[p][3] * 4899 + 8192) \div 16384])

\* the 21-tap kernel of sigma 3.5 in 8 fractional bits (sums to 256)
GaussKernel ==
    <<0, 2, 2, 4, 6, 11, 15, 20, 25, 28, 30, 28, 25, 20, 15, 11, 6, 4, 2, 2, 0>>

\* BORDER_REFLECT_101: the index in 0..len-1 that position q reads
RECURSIVE Reflect101(_, _)
Reflect101(q, len) ==
    IF len = 1 THEN 0
    ELSE IF q < 0 THEN Reflect101(0 - q, len)
    ELSE IF q >= len THEN Reflect101(2 * (len - 1) - q, len)
    ELSE q

Radius == KernelSize \div 2

RECURSIVE SumTaps(_, _)
\* sum over taps i..KernelSize of GaussKernel[i] * val[i]
SumTaps(val, i) ==
    IF i > KernelSize THEN 0
    ELSE GaussKernel[i] * val[i] + SumTaps(val, i + 1)

\* cv2.GaussianBlur(gray, (21, 21), 0): row pass, column pass, rounding
GaussianBlur(gray) ==
    LET rows == Array([p \in Pixels |->
                    SumTaps([i \in 1 .. KernelSize |->
                                gray[<<Reflect101(p[1] + i - 1 - Radius, FrameW), p[2]>>]], 1)])
        cols == Array([p \in Pixels |->
                    SumTaps([i \in 1 .. KernelSize |->
                                rows[<<p[1], Reflect101(p[2] + i - 1 - Radius, FrameH)>>]], 1)])
    IN  Array([p \in Pixels |-> Min(255, (cols[p] + 32768) \div 65536)])

\* lines 42-46 and 70-74: mask, grey scale, blur
Preprocess(k, box) == GaussianBlur(CvtColor(FillBox(FrameImage(k), box)))

\* cv2.absdiff and cv2.threshold(diff, 25, 255, THRESH_BINARY): the changed pixels
Binarize(grayA, grayB) == {p \in Pixels : Abs(grayA[p] - grayB[p]) > BinThreshold}

\* one iteration of cv2.dilate with the default 3x3 element
DilateOnce(S) ==
    {p \in Pixels : \E q \in S : Abs(p[1] - q[1]) <= 1 /\ Abs(p[2] - q[2]) <= 1}

RECURSIVE Dilate(_, _)
Dilate(S, n) == IF n = 0 THEN S ELSE Dilate(DilateOnce(S), n - 1)

\* the blurred grey image of every frame kind under every mask
GrayTable == Array([k \in FrameKinds, box \in Masks |-> Preprocess(k, box)])

\* lines 77-86: the changed pixels of frame kind a against reference kind b
ChangedPixels(a, b, box) ==
    Dilate(Binarize(GrayTable[a, box], GrayTable[b, box]), DilateIterations)

\* the table of the changed pixels of every pair of frames under every mask
ChangedTable ==
    Array([a \in FrameKinds, b \in FrameKinds, box \in Masks |-> ChangedPixels(a, b, box)])

\* np.count_nonzero(thresh)
DiffCount(a, b, box) == Cardinality(ChangedTable[a, b, box])

\* line 55: total_pixels
TotalPixels(box) == FrameH * FrameW - (box[3] - box[1]) * (box[4] - box[2])

(***************************************************************************)
(* check_video_motion                                                      *)
(***************************************************************************)
\* (diff_count / total_pixels) * 100 > ratio_threshold, for total_pixels # 0;
\* a ratio threshold is a fraction <<numerator, denominator>> of a percent and
\* the comparison is exact (the rounding of the floating point quotient is
\* not modelled)
RatioExceeds(diff_count, total_pixels, rt) ==
    IF total_pixels > 0
    THEN diff_count * 100 * rt[2] > rt[1] * total_pixels
    ELSE diff_count * 100 * rt[2] < rt[1] * total_pixels

\* line 94 with "or" for "and"
MotionDecisionEither(diff_count, total_pixels, threshold, rt) ==
    diff_count > threshold \/ RatioExceeds(diff_count, total_pixels, rt)

\* line 94 with the pixel comparison reversed
MotionDecisionBelow(diff_count, total_pixels, threshold, rt) ==
    diff_count < threshold /\ RatioExceeds(diff_count, total_pixels, rt)

\* line 94: diff_count > threshold and diff_ratio > ratio_threshold
MotionDecision(diff_count, total_pixels, threshold, rt) ==
    diff_count > threshold /\ RatioExceeds(diff_count, total_pixels, rt)

\* line 48: check_interval
check_interval(frame_count) == Max(1, frame_count \div SampleDivisor)

\* what check_video_motion has computed when it leaves the loop
Outcome(has_motion, raised, frame_idx, checked, max_diff) ==
    [has_motion |-> has_motion, raised |-> raised, frame_idx |-> frame_idx,
     total_checked_frames |-> checked, max_diff |-> max_diff]

RECURSIVE MotionLoop(_, _, _, _, _, _)
\* lines 58-101: frames is the clip, frame_idx the frames read after the first,
\* prev the kind of the reference frame
MotionLoop(frames, config, frame_idx, prev, checked, max_diff) ==
    IF frame_idx + 2 > Len(frames)
    THEN Outcome(FALSE, FALSE, frame_idx, checked, max_diff)
    ELSE LET idx == frame_idx + 1
             frame == frames[idx + 1]
             total_pixels == TotalPixels(config.time_box)
             diff_count == DiffCount(frame, prev, config.time_box)
         IN  IF idx % check_interval(Len(frames)) # 0
             THEN MotionLoop(frames, config, idx, prev, checked, max_diff)
             ELSE IF total_pixels = 0
             THEN Outcome(FALSE, TRUE, idx, checked + 1, Max(max_diff, diff_count))
             ELSE IF MotionDecision(diff_count, total_pixels, config.threshold,
                                    config.ratio_threshold)
             THEN Outcome(TRUE, FALSE, idx, checked + 1, Max(max_diff, diff_count))
             ELSE MotionLoop(frames, config, idx, frame, checked + 1,
                             Max(max_diff, diff_count))

\* lines 21-111 with the clip that does not open reported as static
check_video_motion_drops_unopened(video, config) ==
    IF ~video.opened THEN Outcome(FALSE, FALSE, 0, 0, 0)
    ELSE IF video.frames = << >> THEN Outcome(TRUE, FALSE, 0, 0, 0)
    ELSE MotionLoop(video.frames, config, 0, video.frames[1], 0, 0)

\* lines 21-111; a clip is [opened, frames], its frame count that of its
\* frames and its frame rate positive; raised is the ZeroDivisionError of
\* line 90 when the time box covers the whole frame
check_video_motion(video, config) ==
    IF ~video.opened THEN Outcome(TRUE, FALSE, 0, 0, 0)
    ELSE IF video.frames = << >> THEN Outcome(TRUE, FALSE, 0, 0, 0)
    ELSE MotionLoop(video.frames, config, 0, video.frames[1], 0, 0)

\* a clip that opens and yields a first frame
Readable(video) == video.opened /\ video.frames # << >>

(***************************************************************************)
(* Inputs of the classifier.                                               *)
(***************************************************************************)
Thresholds == {0, FrameW * FrameH - 2, FrameW * FrameH}
RatioThresholds == {<<1, 10>>, <<100, 1>>, <<120, 1>>}
Configs ==
    [threshold : Thresholds, time_box : Masks, ratio_threshold : RatioThresholds]

SeqsUpTo(S, n) == UNION {[1 .. m -> S] : m \in 0 .. n}

ShortClips == [opened : {TRUE}, frames : SeqsUpTo(FrameKinds, MaxShortLen)]

\* a long clip: dark frames but for frames p and q
LongFrames(n, p, kp, q, kq) ==
    [i \in 1 .. n |-> IF i = q THEN kq ELSE IF i = p THEN kp ELSE "dark"]

LongClips ==
    {[opened |-> TRUE, frames |-> LongFrames(n, p, kp, q, kq)] :
        n \in {LongLen, LongLen + 1},
        p \in {2, 3, 4}, q \in {3, 4, 5, LongLen, LongLen + 1},
        kp \in {"side", "red"}, kq \in {"dark", "side"}}

Unopened == [opened |-> FALSE, frames |-> << >>]

Clips == ShortClips \cup LongClips \cup {Unopened}

(***************************************************************************)
(* parse_video_time and the sort of concatenate_videos                     *)
(***************************************************************************)
FileNames ==
    {"04M21S_1.mp4", "01M05S_2.MP4", "04M21S_9.mkv", "garbage.avi",
     "concatenated_output.mp4", "notes.txt"}

\* folder / 'concatenated_output.mp4' and output_path + ".temp.mp4"
OutputPath == "concatenated_output.mp4"
TempPath == "concatenated_output.mp4.temp.mp4"

\* the characters of a file name
NameChars(name) ==
    CASE name = "04M21S_1.mp4" ->
            <<"0", "4", "M", "2", "1", "S", "_", "1", ".", "m", "p", "4">>
      [] name = "01M05S_2.MP4" ->
            <<"0", "1", "M", "0", "5", "S", "_", "2", ".", "M", "P", "4">>
      [] name = "04M21S_9.mkv" ->
            <<"0", "4", "M", "2", "1", "S", "_", "9", ".", "m", "k", "v">>
      [] name = "garbage.avi" ->
            <<"g", "a", "r", "b", "a", "g", "e", ".", "a", "v", "i">>
      [] name = "concatenated_output.mp4" ->
            <<"c", "o", "n", "c", "a", "t", "e", "n", "a", "t", "e", "d", "_",
              "o", "u", "t", "p", "u", "t", ".", "m", "p", "4">>
      [] name = "notes.txt" ->
            <<"n", "o", "t", "e", "s", ".", "t", "x", "t">>
      [] OTHER ->
            <<"c", "o", "n", "c", "a", "t", "e", "n", "a", "t", "e", "d", "_",
              "o", "u", "t", "p", "u", "t", ".", "m", "p", "4", ".", "t", "e",
              "m", "p", ".", "m", "p", "4">>

\* the position of the last "." of a name, 0 when there is none
LastDot(chars) ==
    LET dots == {i \in 1 .. Len(chars) : chars[i] = "."}
    IN  IF dots = {} THEN 0 ELSE CHOOSE i \in dots : \A k \in dots : k <= i

\* Path.suffix and Path.stem
Suffix(chars) ==
    IF LastDot(chars) <= 1 \/ LastDot(chars) = Len(chars) THEN << >>
    ELSE SubSeq(chars, LastDot(chars), Len(chars))

Stem(chars) ==
    IF LastDot(chars) <= 1 \/ LastDot(chars) = Len(chars) THEN chars
    ELSE SubSeq(chars, 1, LastDot(chars) - 1)

UpperCase == <<"A", "I", "K", "M", "P", "S", "T", "V", "X">>
LowerCase == <<"a", "i", "k", "m", "p", "s", "t", "v", "x">>

\* str.lower
Lower(chars) ==
    [i \in 1 .. Len(chars) |->
        IF \E u \in 1 .. Len(UpperCase) : UpperCase[u] = chars[i]
        THEN LowerCase[CHOOSE u \in 1 .. Len(UpperCase) : UpperCase[u] = chars[i]]
        ELSE chars[i]]

\* line 223
video_extensions ==
    {<<".", "m", "p", "4">>, <<".", "a", "v", "i">>, <<".", "m", "k", "v">>}

\* line 229: video_file.suffix.lower() in video_extensions
IsVideo(name) == Lower(Suffix(NameChars(name))) \in video_extensions

DigitChars == <<"0", "1", "2", "3", "4", "5", "6", "7", "8", "9">>
IsDigit(c) == \E d \in 1 .. 10 : DigitChars[d] = c
DigitValue(c) == (CHOOSE d \in 1 .. 10 : DigitChars[d] = c) - 1

\* the length of the run of digits of chars that starts at position i
DigitRun(chars, i) ==
    LET stops == {k \in i .. Len(chars) : ~IsDigit(chars[k])}
    IN  IF i > Len(chars) THEN 0
        ELSE IF stops = {} THEN Len(chars) - i + 1
        ELSE (CHOOSE k \in stops : \A m \in stops : k <= m) - i

RECURSIVE ToInt(_, _, _)
\* int() of the n digits of chars that start at position i
ToInt(chars, i, n) ==
    IF n = 0 THEN 0
    ELSE ToInt(chars, i, n - 1) * 10 + DigitValue(chars[i + n - 1])

CharAt(chars, i) == IF i <= Len(chars) THEN chars[i] ELSE ""

\* lines 113-128: re.match(r'(\d+)M(\d+)S_\d+', filename)
parse_video_time(chars) ==
    LET n1 == DigitRun(chars, 1)
        n2 == DigitRun(chars, n1 + 2)
    IN  IF /\ n1 >= 1 /\ CharAt(chars, n1 + 1) = "M"
           /\ n2 >= 1 /\ CharAt(chars, n1 + n2 + 2) = "S"
           /\ CharAt(chars, n1 + n2 + 3) = "_"
           /\ DigitRun(chars, n1 + n2 + 4) >= 1
        THEN <<ToInt(chars, 1, n1), ToInt(chars, n1 + 2, n2)>>
        ELSE <<0, 0>>

\* line 159: key=lambda x: parse_video_time(x.stem)
SortKey(name) == parse_video_time(Stem(NameChars(name)))

\* the order of Python tuples
TupleLess(a, b) == a[1] < b[1] \/ (a[1] = b[1] /\ a[2] < b[2])

RECURSIVE InsertSorted(_, _)
\* name put into the sorted list after every entry whose key is not greater
InsertSorted(sorted, name) ==
    IF sorted = << >> THEN <<name>>
    ELSE IF TupleLess(SortKey(name), SortKey(sorted[Len(sorted)]))
    THEN Append(InsertSorted(SubSeq(sorted, 1, Len(sorted) - 1), name),
                sorted[Len(sorted)])
    ELSE Append(sorted, name)

RECURSIVE SortedVideos(_)
\* line 158: sorted(video_files, key=...), a stable sort
SortedVideos(video_files) ==
    IF video_files = << >> THEN << >>
    ELSE InsertSorted(SortedVideos(SubSeq(video_files, 1, Len(video_files) - 1)),
                      video_files[Len(video_files)])

(***************************************************************************)
(* The state: the classifier run on its own, and the folder pass.          *)
(***************************************************************************)
NoOutcome == Outcome(FALSE, FALSE, 0 - 1, 0, 0)
NoDifference == [cur |-> "dark", prev |-> "dark", changed |-> {}, pair |-> 0]

VARIABLES
    clip, cfg, cstage, result, diffres,
    folder, doConcat, fs, orig, pc, idx, kept, verdict, unreadable, removed,
    gone, log, raisedAt, video_files, sorted_videos, j, writer, written,
    readDone, firstPass, compressStarted, encoder, touched

cvars == <<clip, cfg, cstage, result, diffres>>

fvars ==
    <<folder, doConcat, fs, orig, pc, idx, kept, verdict, unreadable, removed,
      gone, log, raisedAt, video_files, sorted_videos, j, writer, written,
      readDone, firstPass, compressStarted, encoder, touched>>

vars == <<cvars, fvars>>

Range(seq) == {seq[i] : i \in 1 .. Len(seq)}

Paths == FileNames \cup {TempPath}

NoFile == [exists |-> FALSE, opened |-> FALSE, frames |-> << >>, enc |-> "none"]

\* a file that a writer has opened and not yet released: no reader can open it
PartialFile == [exists |-> TRUE, opened |-> FALSE, frames |-> << >>, enc |-> "partial"]

ContentKinds == {"unopenable", "empty", "static", "moving"}

KindImages(kind) ==
    CASE kind = "static" -> <<"dark", "stamp">>
      [] kind = "moving" -> <<"dark", "side">>
      [] OTHER -> << >>

\* the file of a given content kind at path name
MakeFile(name, kind) ==
    [exists |-> TRUE,
     opened |-> kind # "unopenable",
     frames |-> [i \in 1 .. Len(KindImages(kind)) |->
                    [src |-> name, n |-> i, img |-> KindImages(kind)[i]]],
     enc |-> "src"]

\* what cv2.VideoCapture(path) gives: [opened, frames]
Capture(file) ==
    [opened |-> file.exists /\ file.opened,
     frames |-> IF file.exists /\ file.opened
                THEN [i \in 1 .. Len(file.frames) |-> file.frames[i].img]
                ELSE << >>]

\* the frames cap.read() yields until it fails
DecodedFrames(file) == IF file.exists /\ file.opened THEN file.frames ELSE << >>

FolderConfigs ==
    {[threshold |-> 0, time_box |-> <<0, 0, 1, 1>>, ratio_threshold |-> <<1, 10>>]}

Folders ==
    {f \in SeqsUpTo(FileNames, MaxFiles) :
        \A a, b \in 1 .. Len(f) : a # b => f[a] # f[b]}

InitFolderVars ==
    /\ folder \in Folders
    /\ doConcat \in BOOLEAN
    /\ \E kinds \in [FileNames -> ContentKinds] :
          /\ \A n \in FileNames : n \notin Range(folder) => kinds[n] = "static"
          /\ kinds["notes.txt"] = "static"
          /\ fs = [p \in Paths |->
                    IF p \in Range(folder) THEN MakeFile(p, kinds[p]) ELSE NoFile]
    /\ orig = fs
    /\ pc = "scan"
    /\ idx = 1
    /\ kept = << >>
    /\ verdict = [n \in FileNames |-> "none"]
    /\ unreadable = {}
    /\ removed = {}
    /\ gone = {}
    /\ log = {}
    /\ raisedAt = "none"
    /\ video_files = << >>
    /\ sorted_videos = << >>
    /\ j = 0
    /\ writer = "unset"
    /\ written = << >>
    /\ readDone = {}
    /\ firstPass = NoFile
    /\ compressStarted = FALSE
    /\ encoder = "none"
    /\ touched = {}

IdleClassifier ==
    /\ clip = Unopened
    /\ cstage = "idle"
    /\ result = NoOutcome
    /\ diffres = NoDifference

Init == InitFolderVars /\ IdleClassifier /\ cfg \in FolderConfigs

(***************************************************************************)
(* The classifier on its own.                                              *)
(***************************************************************************)
IdleFolder ==
    /\ folder = << >>
    /\ doConcat = FALSE
    /\ fs = [p \in Paths |-> NoFile]
    /\ orig = fs
    /\ pc = "idle"
    /\ idx = 1
    /\ kept = << >>
    /\ verdict = [n \in FileNames |-> "none"]
    /\ unreadable = {}
    /\ removed = {}
    /\ gone = {}
    /\ log = {}
    /\ raisedAt = "none"
    /\ video_files = << >>
    /\ sorted_videos = << >>
    /\ j = 0
    /\ writer = "unset"
    /\ written = << >>
    /\ readDone = {}
    /\ firstPass = NoFile
    /\ compressStarted = FALSE
    /\ encoder = "none"
    /\ touched = {}

InitClassify ==
    /\ clip \in Clips
    /\ cfg \in Configs
    /\ cstage = "start"
    /\ result = NoOutcome
    /\ diffres = NoDifference
    /\ IdleFolder

\* classify(clip, config)
Classify ==
    /\ cstage = "start"
    /\ result' = check_video_motion(clip, cfg)
    /\ cstage' = "classified"
    /\ UNCHANGED <<clip, cfg, diffres, fvars>>

\* difference(frameA, frameB, mask) on two consecutive frames of the clip
Compare ==
    /\ cstage = "classified"
    /\ \E i \in 1 .. Min(Len(clip.frames), MaxShortLen) - 1 :
          diffres' = [cur |-> clip.frames[i + 1], prev |-> clip.frames[i],
                      changed |-> ChangedTable[clip.frames[i + 1], clip.frames[i], cfg.time_box],
                      pair |-> i]
    /\ cstage' = "compared"
    /\ UNCHANGED <<clip, cfg, result, fvars>>

NextClassify == Classify \/ Compare

SpecClassify == InitClassify /\ [][NextClassify]_vars

(***************************************************************************)
(* process_video_folder                                                    *)
(***************************************************************************)
cunch == UNCHANGED <<clip, cfg, cstage, result, diffres>>

\* lines 229-231 and 237-239 with every clip kept, whatever the verdict
ClassifyFileKeepsAll ==
    /\ pc = "scan" /\ idx <= Len(folder) /\ IsVideo(folder[idx])
    /\ LET video_file == folder[idx]
           video == Capture(fs[video_file])
           has_motion == check_video_motion(video, cfg).has_motion
       IN  /\ verdict' = [verdict EXCEPT ![video_file] =
                             IF has_motion THEN "motion" ELSE "static"]
           /\ unreadable' = IF Readable(video) THEN unreadable
                            ELSE unreadable \cup {video_file}
           /\ kept' = Append(kept, video_file)
           /\ IF has_motion
              THEN /\ idx' = idx + 1
                   /\ pc' = "scan"
              ELSE /\ idx' = idx
                   /\ pc' = "exists"
    /\ UNCHANGED <<folder, doConcat, fs, orig, removed, gone, log, raisedAt,
                   video_files, sorted_videos, j, writer, written, readDone,
                   firstPass, compressStarted, encoder, touched>>
    /\ cunch

\* lines 229-231 and 237-239: the next file is a video; it is classified and,
\* with motion, kept
ClassifyFile ==
    /\ pc = "scan" /\ idx <= Len(folder) /\ IsVideo(folder[idx])
    /\ LET video_file == folder[idx]
           video == Capture(fs[video_file])
           has_motion == check_video_motion(video, cfg).has_motion
       IN  /\ verdict' = [verdict EXCEPT ![video_file] =
                             IF has_motion THEN "motion" ELSE "static"]
           /\ unreadable' = IF Readable(video) THEN unreadable
                            ELSE unreadable \cup {video_file}
           /\ IF has_motion
              THEN /\ kept' = Append(kept, video_file)
                   /\ idx' = idx + 1
                   /\ pc' = "scan"
              ELSE /\ kept' = kept
                   /\ idx' = idx
                   /\ pc' = "exists"
    /\ UNCHANGED <<folder, doConcat, fs, orig, removed, gone, log, raisedAt,
                   video_files, sorted_videos, j, writer, written, readDone,
                   firstPass, compressStarted, encoder, touched>>
    /\ cunch

\* line 229: the next file is no video
SkipFile ==
    /\ pc = "scan" /\ idx <= Len(folder) /\ ~IsVideo(folder[idx])
    /\ idx' = idx + 1
    /\ UNCHANGED <<folder, doConcat, fs, orig, pc, kept, verdict, unreadable,
                   removed, gone, log, raisedAt, video_files, sorted_videos, j,
                   writer, written, readDone, firstPass, compressStarted,
                   encoder, touched>>
    /\ cunch

\* lines 233, 235-236: os.path.exists(video_file)
CheckExists ==
    /\ pc = "exists"
    /\ IF fs[folder[idx]].exists
       THEN /\ pc' = "remove"
            /\ UNCHANGED <<idx, log>>
       ELSE /\ pc' = "scan"
            /\ idx' = idx + 1
            /\ log' = log \cup {<<"missing", folder[idx]>>}
    /\ UNCHANGED <<folder, doConcat, fs, orig, kept, verdict, unreadable,
                   removed, gone, raisedAt, video_files, sorted_videos, j,
                   writer, written, readDone, firstPass, compressStarted,
                   encoder, touched>>
    /\ cunch

\* line 234: os.remove(video_file); FileNotFoundError when the file is gone
RemoveFile ==
    /\ pc = "remove"
    /\ IF fs[folder[idx]].exists
       THEN /\ fs' = [fs EXCEPT ![folder[idx]] = NoFile]
            /\ removed' = removed \cup {folder[idx]}
            /\ touched' = touched \cup {folder[idx]}
            /\ idx' = idx + 1
            /\ pc' = "scan"
            /\ UNCHANGED raisedAt
       ELSE /\ pc' = "raised"
            /\ raisedAt' = "remove_clip"
            /\ UNCHANGED <<fs, removed, touched, idx>>
    /\ UNCHANGED <<folder, doConcat, orig, kept, verdict, unreadable, gone, log,
                   video_files, sorted_videos, j, writer, written, readDone,
                   firstPass, compressStarted, encoder>>
    /\ cunch

\* lines 241-243: the walk is over
EndScan ==
    /\ pc = "scan" /\ idx > Len(folder)
    /\ IF doConcat /\ kept # << >>
       THEN /\ video_files' = kept
            /\ pc' = "sort"
       ELSE /\ pc' = "done"
            /\ UNCHANGED video_files
    /\ UNCHANGED <<folder, doConcat, fs, orig, idx, kept, verdict, unreadable,
                   removed, gone, log, raisedAt, sorted_videos, j, writer,
                   written, readDone, firstPass, compressStarted, encoder,
                   touched>>
    /\ cunch

\* another party removes a clip of the folder
Vanish ==
    /\ pc \notin {"done", "raised", "idle"}
    /\ Cardinality(gone) < MaxVanish
    /\ \E f \in Range(folder) :
          /\ fs[f].exists /\ fs[f] = orig[f]
          /\ fs' = [fs EXCEPT ![f] = NoFile]
          /\ gone' = gone \cup {f}
    /\ UNCHANGED <<folder, doConcat, orig, pc, idx, kept, verdict, unreadable,
                   removed, log, raisedAt, video_files, sorted_videos, j, writer,
                   written, readDone, firstPass, compressStarted, encoder,
                   touched>>
    /\ cunch

(***************************************************************************)
(* concatenate_videos                                                      *)
(***************************************************************************)
\* lines 153-170: sort, then open the first clip for its properties
SortAndProbe ==
    /\ pc = "sort"
    /\ IF video_files = << >>
       THEN /\ pc' = "done"
            /\ log' = log \cup {<<"nothing_to_concatenate", "">>}
            /\ UNCHANGED sorted_videos
       ELSE /\ sorted_videos' = SortedVideos(video_files)
            /\ IF Capture(fs[sorted_videos'[1]]).opened
               THEN /\ pc' = "exists_out"
                    /\ UNCHANGED log
               ELSE /\ pc' = "done"
                    /\ log' = log \cup {<<"cannot_open", sorted_videos'[1]>>}
    /\ UNCHANGED <<folder, doConcat, fs, orig, idx, kept, verdict, unreadable,
                   removed, gone, raisedAt, video_files, j, writer, written,
                   readDone, firstPass, compressStarted, encoder, touched>>
    /\ cunch

\* line 173: os.path.exists(output_path)
CheckOutput ==
    /\ pc = "exists_out"
    /\ pc' = IF fs[OutputPath].exists THEN "remove_out" ELSE "open_writer"
    /\ UNCHANGED <<folder, doConcat, fs, orig, idx, kept, verdict, unreadable,
                   removed, gone, log, raisedAt, video_files, sorted_videos, j,
                   writer, written, readDone, firstPass, compressStarted,
                   encoder, touched>>
    /\ cunch

\* line 174: os.remove(output_path)
RemoveOutput ==
    /\ pc = "remove_out"
    /\ IF fs[OutputPath].exists
       THEN /\ fs' = [fs EXCEPT ![OutputPath] = NoFile]
            /\ touched' = touched \cup {OutputPath}
            /\ pc' = "open_writer"
            /\ UNCHANGED raisedAt
       ELSE /\ pc' = "raised"
            /\ raisedAt' = "remove_output"
            /\ UNCHANGED <<fs, touched>>
    /\ UNCHANGED <<folder, doConcat, orig, idx, kept, verdict, unreadable,
                   removed, gone, log, video_files, sorted_videos, j, writer,
                   written, readDone, firstPass, compressStarted, encoder>>
    /\ cunch

\* lines 176-183: the H264 writer, then the mp4v writer when the first did
\* not open; whether a writer opens is the environment's choice
OpenWriter ==
    /\ pc = "open_writer"
    /\ \E primary_ok \in BOOLEAN, secondary_ok \in BOOLEAN :
          writer' = IF primary_ok THEN "H264"
                    ELSE IF secondary_ok THEN "mp4v" ELSE "closed"
    /\ IF writer' # "closed"
       THEN /\ fs' = [fs EXCEPT ![OutputPath] = PartialFile]
            /\ touched' = touched \cup {OutputPath}
       ELSE UNCHANGED <<fs, touched>>
    /\ pc' = "copy"
    /\ j' = 1
    /\ UNCHANGED <<folder, doConcat, orig, idx, kept, verdict, unreadable,
                   removed, gone, log, raisedAt, video_files, sorted_videos,
                   written, readDone, firstPass, compressStarted, encoder>>
    /\ cunch

\* lines 186-196: one clip is decoded to its end, every frame handed to
\* out.write, which writes nothing when the writer is not open
CopyClip ==
    /\ pc = "copy" /\ j <= Len(sorted_videos)
    /\ written' = IF writer = "closed" THEN written
                  ELSE written \o DecodedFrames(fs[sorted_videos[j]])
    /\ readDone' = readDone \cup {sorted_videos[j]}
    /\ j' = j + 1
    /\ UNCHANGED <<folder, doConcat, fs, orig, pc, idx, kept, verdict,
                   unreadable, removed, gone, log, raisedAt, video_files,
                   sorted_videos, writer, firstPass, compressStarted, encoder,
                   touched>>
    /\ cunch

\* lines 198-199: out.release()
ReleaseWriter ==
    /\ pc = "copy" /\ j > Len(sorted_videos)
    /\ IF writer = "closed"
       THEN UNCHANGED <<fs, firstPass>>
       ELSE /\ fs' = [fs EXCEPT ![OutputPath] =
                        [exists |-> TRUE, opened |-> TRUE, frames |-> written,
                         enc |-> writer]]
            /\ firstPass' = fs'[OutputPath]
    /\ log' = log \cup {<<"saved", OutputPath>>}
    /\ pc' = "rename"
    /\ UNCHANGED <<folder, doConcat, orig, idx, kept, verdict, unreadable,
                   removed, gone, raisedAt, video_files, sorted_videos, j,
                   writer, written, readDone, compressStarted, encoder, touched>>
    /\ cunch

\* lines 202-204, 208-209: os.rename(output_path, temp_output); the
\* FileNotFoundError of a missing output is caught and reported
RenameOutput ==
    /\ pc = "rename"
    /\ compressStarted' = TRUE
    /\ IF fs[OutputPath].exists
       THEN /\ fs' = [fs EXCEPT ![TempPath] = fs[OutputPath], ![OutputPath] = NoFile]
            /\ touched' = touched \cup {OutputPath, TempPath}
            /\ pc' = "encode"
            /\ UNCHANGED log
       ELSE /\ pc' = "done"
            /\ log' = log \cup {<<"compression_failed", OutputPath>>}
            /\ UNCHANGED <<fs, touched>>
    /\ UNCHANGED <<folder, doConcat, orig, idx, kept, verdict, unreadable,
                   removed, gone, raisedAt, video_files, sorted_videos, j,
                   writer, written, readDone, firstPass, encoder>>
    /\ cunch

\* line 205: os.system('ffmpeg ...') returns the exit status and never raises;
\* the encoder succeeds, exits with an error (with or without a stub of the
\* output) or is missing
RunEncoder ==
    /\ pc = "encode"
    /\ \E outcome \in {"ok", "error", "missing"}, stub \in BOOLEAN :
          /\ encoder' = outcome
          /\ fs' = [fs EXCEPT ![OutputPath] =
                      IF outcome = "ok" THEN [fs[TempPath] EXCEPT !.enc = "libx264"]
                      ELSE IF outcome = "error" /\ stub THEN PartialFile
                      ELSE NoFile]
    /\ touched' = touched \cup {OutputPath}
    /\ pc' = "remove_temp"
    /\ UNCHANGED <<folder, doConcat, orig, idx, kept, verdict, unreadable,
                   removed, gone, log, raisedAt, video_files, sorted_videos, j,
                   writer, written, readDone, firstPass, compressStarted>>
    /\ cunch

\* lines 206-207: os.remove(temp_output)
RemoveTemp ==
    /\ pc = "remove_temp"
    /\ fs' = [fs EXCEPT ![TempPath] = NoFile]
    /\ log' = log \cup {<<"compressed", OutputPath>>}
    /\ pc' = "done"
    /\ UNCHANGED <<folder, doConcat, orig, idx, kept, verdict, unreadable,
                   removed, gone, raisedAt, video_files, sorted_videos, j,
                   writer, written, readDone, firstPass, compressStarted,
                   encoder, touched>>
    /\ cunch

Next ==
    \/ ClassifyFile \/ SkipFile \/ CheckExists \/ RemoveFile \/ EndScan
    \/ Vanish
    \/ SortAndProbe \/ CheckOutput \/ RemoveOutput \/ OpenWriter \/ CopyClip
    \/ ReleaseWriter \/ RenameOutput \/ RunEncoder \/ RemoveTemp

Spec == Init /\ [][Next]_vars

(***************************************************************************)
(* Properties of the classifier and of the frame differencer.              *)
(***************************************************************************)
\* the frame indices (counted after the first frame) that are compared
SampledIndices(frames) ==
    {k \in 1 .. Len(frames) - 1 : k % Max(1, Len(frames) \div SampleDivisor) = 0}

\* sampled frame k differs from the frame compared before it (the first frame
\* for the first sample) by more than both thresholds
ExceedsBoth(frames, config, k) ==
    LET stride == Max(1, Len(frames) \div SampleDivisor)
        count == DiffCount(frames[k + 1], frames[k - stride + 1], config.time_box)
        total == TotalPixels(config.time_box)
    IN  /\ total > 0
        /\ count > config.threshold
        /\ count * 100 * config.ratio_threshold[2] > config.ratio_threshold[1] * total

TriggerIndices(frames, config) ==
    {k \in SampledIndices(frames) : ExceedsBoth(frames, config, k)}

\* C4: a readable clip has motion exactly when some sampled frame exceeds both
\* thresholds against the last compared frame, and reading stops at the first
\* such frame (and runs to the end of the clip when there is none)
C4_MotionIffSampledFrameExceedsBoth ==
    (cstage # "start" /\ Readable(clip)) =>
        LET hits == TriggerIndices(clip.frames, cfg)
        IN  /\ result.has_motion <=> hits # {}
            /\ result.has_motion =>
                  /\ result.frame_idx \in hits
                  /\ \A k \in hits : result.frame_idx <= k
            /\ (~result.has_motion /\ ~result.raised) =>
                  result.frame_idx = Len(clip.frames) - 1

\* C4: a long clip (stride 2) whose motion is found at a later sample
C4_Witness ==
    /\ cstage = "classified"
    /\ Len(clip.frames) >= 2 * SampleDivisor
    /\ result.has_motion
    /\ result.frame_idx >= 4
    /\ result.total_checked_frames >= 2

\* a config whose two thresholds are at most those of config
LowerConfigs(config) ==
    {c \in Configs :
        /\ c.time_box = config.time_box
        /\ c.threshold <= config.threshold
        /\ c.ratio_threshold[1] * config.ratio_threshold[2]
              <= config.ratio_threshold[1] * c.ratio_threshold[2]}

\* C9: motion found under a config is found under every config with lower
\* (or equal) thresholds
C9_MonotonicInThresholds ==
    (cstage # "start" /\ result.has_motion) =>
        \A c \in LowerConfigs(cfg) : check_video_motion(clip, c).has_motion

\* C9: motion found in a readable clip under thresholds that can both be lowered
C9_Witness ==
    /\ cstage = "classified"
    /\ Readable(clip)
    /\ result.has_motion
    /\ result.total_checked_frames >= 2
    /\ \E c \in LowerConfigs(cfg) :
          c.threshold < cfg.threshold /\ c.ratio_threshold # cfg.ratio_threshold

\* C7: no pixel inside the mask is counted as changed, the denominator of the
\* ratio is the number of pixels compared, and the ratio is within 0..100
C7_MaskedPixelsNeverContribute ==
    cstage = "compared" =>
        /\ \A p \in diffres.changed : ~InBox(p, cfg.time_box)
        /\ TotalPixels(cfg.time_box)
              = Cardinality({p \in Pixels : ~InBox(p, cfg.time_box)})
        /\ Cardinality(diffres.changed) <= TotalPixels(cfg.time_box)
(***************************************************************************)
(* Properties of the folder pass and of the concatenator.                  *)
(***************************************************************************)
PosIn(seq, x) == CHOOSE i \in 1 .. Len(seq) : seq[i] = x

\* the clip whose deletion branch (lines 232-236) is under way
InDeletion(f) == pc \in {"exists", "remove", "raised"} /\ raisedAt # "remove_output"
                    /\ idx <= Len(folder) /\ folder[idx] = f

\* C2: os.remove is applied only to clips classified without motion, every
\* such clip is removed (or found already gone), the survivor list is the
\* clips with motion in enumeration order, no clip is both removed and a
\* survivor, and the concatenator is called exactly when doConcat holds and
\* there is a survivor, with that list
C2_DeleteIffNoMotion ==
    /\ \A f \in removed : verdict[f] = "static"
    /\ \A f \in FileNames :
          (verdict[f] = "static" /\ ~InDeletion(f)) =>
              (f \in removed \/ (<<"missing", f>> \in log /\ f \in gone))
    /\ kept = SelectSeq(folder, LAMBDA f : verdict[f] = "motion")
    /\ Range(kept) \cap removed = {}
    /\ pc \notin {"scan", "exists", "remove", "raised"} =>
          /\ video_files # << >> <=> (doConcat /\ kept # << >>)
          /\ video_files # << >> => video_files = kept
    /\ pc \in {"scan", "exists", "remove"} => video_files = << >>

\* C2: a pass that removed a static clip, kept a clip with motion and called
\* the concatenator with it
C2_Witness ==
    /\ pc = "sort"
    /\ removed # {}
    /\ Len(video_files) >= 1
    /\ \E f \in FileNames : verdict[f] = "motion" /\ f \in Range(video_files)

\* C3: a clip that did not open or gave no frame is classified as moving, is
\* kept, is never removed by the walk, and the walk goes on to the next file
C3_UnreadableClipIsKept ==
    \A f \in unreadable :
        /\ verdict[f] = "motion"
        /\ f \in Range(kept)
        /\ f \notin removed
        /\ ~InDeletion(f)
        /\ pc \in {"scan", "exists", "remove"} => idx > PosIn(folder, f)

\* C3: an unreadable clip was kept and a later clip was classified
C3_Witness ==
    \E f \in unreadable, g \in FileNames :
        /\ orig[f].exists /\ gone = {}
        /\ verdict[g] # "none"
        /\ PosIn(folder, f) < PosIn(folder, g)

\* C8: the walk never raises on the removal of a clip without motion
C8_DeletionRaceNeverRaises == ~(pc = "raised" /\ raisedAt = "remove_clip")

\* C1: when the encoder fails, the failure is reported and the first-pass file
\* is at the output path when concatenate returns
C1_CompressionFailureKeepsOutput ==
    (pc = "done" /\ encoder \in {"error", "missing"} /\ firstPass.frames # << >>) =>
        /\ <<"compression_failed", OutputPath>> \in log
        /\ fs[OutputPath] = firstPass

\* C5: when neither writer opens, no frame is written, no compression pass is
\* started and no clip handed to the concatenator is touched
C5_AbortWhenNoWriterOpens ==
    (pc = "done" /\ writer = "closed") =>
        /\ written = << >>
        /\ ~compressStarted
        /\ Range(video_files) \cap touched = {}

\* the clips of a list in ascending key order, equal keys in list order
StableOrders(list) ==
    {s \in [1 .. Len(list) -> Range(list)] :
        /\ Range(s) = Range(list)
        /\ \A a, b \in 1 .. Len(s) :
              a < b =>
                 \/ TupleLess(SortKey(s[a]), SortKey(s[b]))
                 \/ /\ SortKey(s[a]) = SortKey(s[b])
                    /\ PosIn(list, s[a]) < PosIn(list, s[b])}

RECURSIVE AllFrames(_, _)
\* the frames of the first n clips of order, as the folder held them
AllFrames(order, n) ==
    IF n = 0 THEN << >>
    ELSE AllFrames(order, n - 1) \o DecodedFrames(orig[order[n]])

\* C6: the frames handed to the writer are all frames of all clips, the clips
\* in stable ascending key order
C6_WritesEveryFrameInKeyOrder ==
    (pc = "done" /\ video_files # << >> /\ gone = {}) =>
        \A s \in StableOrders(video_files) : written = AllFrames(s, Len(s))

\* C10: no survivor is removed, renamed or written before the concatenator
\* has read it
C10_SurvivorsUntouchedUntilRead ==
    \A f \in Range(kept) : f \in touched => f \in readDone
====
